---- MODULE Spec2Model ----
(***************************************************************************)
(* Vehicle registration dashboard: the table normalizer (get_data, with    *)
(* its two st.cache_data memo tables), the script run that computes the    *)
(* period comparisons, and the scraper runs that write the source files.   *)
(*                                                                         *)
(* A string that the code parses (a table cell) is a sequence of           *)
(* one-character strings.  A DataFrame is [cols, rows]: cols the column    *)
(* names, rows a sequence of rows, each a sequence of values, value 1      *)
(* being the key.  Years are integers (the code converts "2025" with       *)
(* int() and back with str()).  What a script run only renders (the table  *)
(* display, the CSV download, the charts) is not part of the state.        *)
(***************************************************************************)
EXTENDS Integers, Sequences, FiniteSets, TLC

VARIABLES
    files,          \* path -> [exists, tables]: the HTML files under src/
    tables_cache,   \* st.cache_data memo of load_tables, by html_path
    data_cache,     \* st.cache_data memo of get_data, by (year, table_type, vehicle_type)
    sel,            \* the sidebar widgets' values
    page,           \* what the last script run put on the page
    scrape          \* outcome of the last scraper run

vars == <<files, tables_cache, data_cache, sel, page, scrape>>

(***************************************************************************)
(* Bounds of the model.                                                    *)
(***************************************************************************)
MaxTables == 7      \* tables in one HTML document
MaxWidth == 16      \* columns of a raw table, the row-number column included
MaxRows == 2        \* rows of a raw table in the shape family
MaxCellLen == 3     \* characters of a cell in the coercion family
MaxVal == 2         \* largest registration count in the comparison family

(***************************************************************************)
(* Program constants.                                                      *)
(***************************************************************************)
month_names ==
    <<"Jan", "Feb", "Mar", "Apr", "May", "Jun",
      "Jul", "Aug", "Sep", "Oct", "Nov", "Dec">>

table_type_options ==
    <<"Vehicle Class", "Manufacturer",
      "Vehicle Category Month Wise", "Manufacturer Month Wise">>

MonthWiseTypes == {"Vehicle Category Month Wise", "Manufacturer Month Wise"}

vehicle_type_options == <<"Four Wheeler", "Three Wheeler", "Two Wheeler">>

year_options == <<2025, 2024, 2023>>

NoVehicle == "None"     \* selected_vehicle_type = None
NoMonth == "None"       \* selected_month = None
AllMonths == "All"
Sentinel == [k |-> "dash", h |-> 0]     \* the string shown for a zero baseline

Range(s) == {s[i] : i \in 1..Len(s)}
Min(a, b) == IF a < b THEN a ELSE b

vehicle_types(v) ==
    CASE v = "Four Wheeler" -> "four_wheeler"
      [] v = "Three Wheeler" -> "three_wheeler"
      [] v = "Two Wheeler" -> "two_wheeler"

\* table_type.replace(' ', '_').lower()
Slug(table_type) ==
    CASE table_type = "Vehicle Class" -> "vehicle_class"
      [] table_type = "Manufacturer" -> "manufacturer"
      [] table_type = "Vehicle Category Month Wise" -> "vehicle_category_month_wise"
      [] table_type = "Manufacturer Month Wise" -> "manufacturer_month_wise"

\* The file a selection reads: src/{vehicle_}{table type}_{year}.html
HtmlPath(year, table_type, selected_vehicle_type) ==
    IF selected_vehicle_type # NoVehicle
    THEN <<vehicle_types(selected_vehicle_type), Slug(table_type), year>>
    ELSE <<"", Slug(table_type), year>>

Contexts ==
    {<<t, v>> : t \in {"Vehicle Class", "Manufacturer"}, v \in Range(vehicle_type_options)}
    \cup {<<t, NoVehicle>> : t \in MonthWiseTypes}

Years == Range(year_options) \cup {y - 1 : y \in Range(year_options)}

Keys == {<<y, c[1], c[2]>> : y \in Years, c \in Contexts}

Paths == {HtmlPath(k[1], k[2], k[3]) : k \in Keys}

(***************************************************************************)
(* DataFrames.                                                             *)
(***************************************************************************)
EmptyDF == [cols |-> <<>>, rows |-> <<>>]

IsEmpty(df) == df.rows = <<>> \/ df.cols = <<>>

HasCol(df, name) == \E i \in 1..Len(df.cols) : df.cols[i] = name

ColIndex(df, name) == CHOOSE i \in 1..Len(df.cols) : df.cols[i] = name

RECURSIVE SumSeq(_)
SumSeq(s) == IF s = <<>> THEN 0 ELSE s[1] + SumSeq(Tail(s))

(***************************************************************************)
(* Numeric coercion of one cell (app.py line 140):                         *)
(*   pd.to_numeric(str.replace(",", ""), errors='coerce')                  *)
(*     .fillna(0).astype(int)                                              *)
(***************************************************************************)
Digits == {"0", "1", "2", "3", "4", "5", "6", "7", "8", "9"}

DigitVal(ch) ==
    CASE ch = "0" -> 0 [] ch = "1" -> 1 [] ch = "2" -> 2 [] ch = "3" -> 3
      [] ch = "4" -> 4 [] ch = "5" -> 5 [] ch = "6" -> 6 [] ch = "7" -> 7
      [] ch = "8" -> 8 [] ch = "9" -> 9

IsDigits(s) == \A i \in 1..Len(s) : s[i] \in Digits

RECURSIVE DecVal(_)
DecVal(s) ==
    IF s = <<>> THEN 0
    ELSE 10 * DecVal(SubSeq(s, 1, Len(s) - 1)) + DigitVal(s[Len(s)])

\* .str.replace(",", "")
StripCommas(s) == SelectSeq(s, LAMBDA ch : ch # ",")

NaN == [nan |-> TRUE, neg |-> FALSE, ip |-> 0]

\* pd.to_numeric(..., errors='coerce') on one string: an optional minus sign, then
\* digits with at most one decimal point and at least one digit; anything else is
\* NaN.  ip is the integer part, which is all that astype(int) keeps.
to_numeric(s) ==
    LET neg == Len(s) > 0 /\ s[1] = "-"
        body == IF neg THEN Tail(s) ELSE s
        dots == {i \in 1..Len(body) : body[i] = "."}
    IN  IF dots = {}
        THEN IF Len(body) > 0 /\ IsDigits(body)
             THEN [nan |-> FALSE, neg |-> neg, ip |-> DecVal(body)]
             ELSE NaN
        ELSE IF Cardinality(dots) = 1
        THEN LET d == CHOOSE i \in dots : TRUE
                 ipart == SubSeq(body, 1, d - 1)
                 fpart == SubSeq(body, d + 1, Len(body))
             IN  IF IsDigits(ipart) /\ IsDigits(fpart) /\ Len(ipart) + Len(fpart) > 0
                 THEN [nan |-> FALSE, neg |-> neg, ip |-> DecVal(ipart)]
                 ELSE NaN
        ELSE NaN

\* .fillna(0).astype(int): NaN becomes 0, a float is truncated toward zero
CoerceCell(s) ==
    LET n == to_numeric(StripCommas(s))
    IN  IF n.nan THEN 0 ELSE IF n.neg THEN 0 - n.ip ELSE n.ip

(***************************************************************************)
(* get_data (app.py lines 87-142) and load_tables (lines 14-30).           *)
(***************************************************************************)
FixedNames(table_type, selected_vehicle_type) ==
    LET key == IF table_type = "Manufacturer" THEN "Manufacturer" ELSE "Class"
    IN  CASE selected_vehicle_type = "Two Wheeler" -> <<key, "2WIC", "2WN", "2WT", "TOTAL">>
          [] selected_vehicle_type = "Three Wheeler" -> <<key, "3WN", "3WT", "TOTAL">>
          [] selected_vehicle_type = "Four Wheeler" ->
                <<key, "4WIC", "LMV", "MMV", "HMV", "TOTAL">>

\* month_names[:num_months]
\* faulty variant: one month too many
MutMonthSliceOneMore(num_months) ==
    SubSeq(month_names, 1, Min(num_months + 1, Len(month_names)))
MonthSlice(num_months) == SubSeq(month_names, 1, Min(num_months, Len(month_names)))

\* The names get_data assigns to a table of ncols columns: "ok" with the names,
\* "raise" when df.columns = [...] gets a list of another length (ValueError),
\* "empty" when the month count is not positive.
NameColumns(table_type, selected_vehicle_type, ncols) ==
    IF table_type \in MonthWiseTypes
    THEN LET key_column_name ==
                 IF table_type = "Vehicle Category Month Wise"
                 THEN "Category" ELSE "Manufacturer"
             num_months == ncols - 2
             names == <<key_column_name>> \o MonthSlice(num_months) \o <<"TOTAL">>
         IN  IF num_months > 0
             THEN IF Len(names) = ncols
                  THEN [kind |-> "ok", names |-> names]
                  ELSE [kind |-> "raise", names |-> <<>>]
             ELSE [kind |-> "empty", names |-> <<>>]
    ELSE LET names == FixedNames(table_type, selected_vehicle_type)
         IN  IF Len(names) = ncols
             THEN [kind |-> "ok", names |-> names]
             ELSE [kind |-> "raise", names |-> <<>>]

\* idx = 5 if len(tables) > 5 else len(tables) - 1, as a 1-based position
\* faulty variant: always the last table
MutSelectLast(tables) == Len(tables)
SelectIndex(tables) == IF Len(tables) > 5 THEN 6 ELSE Len(tables)

\* df.reset_index(drop=True).iloc[:, 1:]
\* faulty variant: the row-number column is kept
MutKeepFirstColumn(t) == t
DropFirstColumn(t) == [i \in 1..Len(t) |-> Tail(t[i])]

\* every column but column 0 is coerced to int
CoerceRow(r) == [j \in 1..Len(r) |-> IF j = 1 THEN r[j] ELSE CoerceCell(r[j])]

\* The body of get_data after load_tables: [raised, df]
\* faulty variant: no "if not tables" test, so tables[-1] raises on []
MutNormalizeNoEmptyCheck(tables, table_type, selected_vehicle_type) ==
    IF tables = <<>>
    THEN [raised |-> TRUE, df |-> EmptyDF]
    ELSE LET raw == DropFirstColumn(tables[SelectIndex(tables)])
             named == NameColumns(table_type, selected_vehicle_type, Len(raw[1]))
         IN  CASE named.kind = "raise" -> [raised |-> TRUE, df |-> EmptyDF]
               [] named.kind = "empty" -> [raised |-> FALSE, df |-> EmptyDF]
               [] named.kind = "ok" ->
                    [raised |-> FALSE,
                     df |-> [cols |-> named.names,
                             rows |-> [i \in 1..Len(raw) |-> CoerceRow(raw[i])]]]
Normalize(tables, table_type, selected_vehicle_type) ==
    IF tables = <<>>
    THEN [raised |-> FALSE, df |-> EmptyDF]
    ELSE LET raw == DropFirstColumn(tables[SelectIndex(tables)])
             named == NameColumns(table_type, selected_vehicle_type, Len(raw[1]))
         IN  CASE named.kind = "raise" -> [raised |-> TRUE, df |-> EmptyDF]
               [] named.kind = "empty" -> [raised |-> FALSE, df |-> EmptyDF]
               [] named.kind = "ok" ->
                    [raised |-> FALSE,
                     df |-> [cols |-> named.names,
                             rows |-> [i \in 1..Len(raw) |-> CoerceRow(raw[i])]]]

Miss == [hit |-> FALSE, val |-> <<>>]

\* load_tables without its memo: a missing file, a file without tables and a file
\* that cannot be read all give []
ReadTables(fs, html_path) ==
    IF ~fs[html_path].exists THEN <<>> ELSE fs[html_path].tables

\* load_tables under @st.cache_data: [val, tc]
load_tables(fs, tc, html_path) ==
    IF tc[html_path].hit
    THEN [val |-> tc[html_path].val, tc |-> tc]
    ELSE LET v == ReadTables(fs, html_path)
         IN  [val |-> v, tc |-> [tc EXCEPT ![html_path] = [hit |-> TRUE, val |-> v]]]

\* get_data under @st.cache_data: [out, dc, tc].  A call that raises is not memoized.
get_data(fs, dc, tc, year, table_type, selected_vehicle_type) ==
    LET key == <<year, table_type, selected_vehicle_type>>
    IN  IF dc[key].hit
        THEN [out |-> [raised |-> FALSE, df |-> dc[key].val], dc |-> dc, tc |-> tc]
        ELSE LET lt == load_tables(fs, tc, HtmlPath(year, table_type, selected_vehicle_type))
                 out == Normalize(lt.val, table_type, selected_vehicle_type)
             IN  [out |-> out,
                  dc |-> IF out.raised THEN dc
                         ELSE [dc EXCEPT ![key] = [hit |-> TRUE, val |-> out.df]],
                  tc |-> lt.tc]

(***************************************************************************)
(* Percentage strings.  f"{x:.2f}%" is [k |-> "pct", h |-> hundredths of a  *)
(* percent]; the exact quotient is rounded to two decimals, ties to even.  *)
(***************************************************************************)
NoDelta == [k |-> "none", h |-> 0]

RoundHalfEven(n, d) ==
    LET nn == IF d < 0 THEN 0 - n ELSE n
        dd == IF d < 0 THEN 0 - d ELSE d
        q == nn \div dd
        r == nn % dd
    IN  IF 2 * r < dd THEN q
        ELSE IF 2 * r > dd THEN q + 1
        ELSE IF q % 2 = 0 THEN q ELSE q + 1

\* f"{((curr - prev) / prev * 100):.2f}%"
FormatPct(curr, prev) == [k |-> "pct", h |-> RoundHalfEven(10000 * (curr - prev), prev)]

\* the lambda of the "Change %", "QoQ%" and "YoY %" columns
\* faulty variant: prev - curr
MutRowChangeSwapped(curr, prev) ==
    IF prev # 0
    THEN [k |-> "pct", h |-> RoundHalfEven(10000 * (prev - curr), prev)]
    ELSE Sentinel
RowChange(curr, prev) == IF prev # 0 THEN FormatPct(curr, prev) ELSE Sentinel

\* overall_change = (...) / previous_total * 100 if previous_total != 0 else 0,
\* shown as f"{overall_change:.2f}%"
OverallChange(current_total, previous_total) ==
    IF previous_total # 0
    THEN FormatPct(current_total, previous_total)
    ELSE [k |-> "pct", h |-> 0]

(***************************************************************************)
(* pd.merge(left, right, on=key_col, how="outer") followed by fillna(0).   *)
(* left and right are sequences of <<key, value>>; the result is a         *)
(* sequence of <<key, left value, right value>>, the keys in sorted order, *)
(* a key on both sides giving one row per pair of matching rows.           *)
(***************************************************************************)
KeyOrder == <<"A", "B", "C", "D">>

MergeGroup(left, right, k) ==
    LET L == SelectSeq(left, LAMBDA r : r[1] = k)
        R == SelectSeq(right, LAMBDA r : r[1] = k)
    IN  IF L = <<>> THEN [i \in 1..Len(R) |-> <<k, 0, R[i][2]>>]
        ELSE IF R = <<>> THEN [i \in 1..Len(L) |-> <<k, L[i][2], 0>>]
        ELSE [n \in 1..(Len(L) * Len(R)) |->
                <<k, L[((n - 1) \div Len(R)) + 1][2], R[((n - 1) % Len(R)) + 1][2]>>]

RECURSIVE MergeFrom(_, _, _)
MergeFrom(left, right, i) ==
    IF i > Len(KeyOrder) THEN <<>>
    ELSE MergeGroup(left, right, KeyOrder[i]) \o MergeFrom(left, right, i + 1)

MergeOuter(left, right) == MergeFrom(left, right, 1)

\* df[[key_col, name]] as a sequence of <<key, value>>
KeyedColumn(df, name) ==
    [i \in 1..Len(df.rows) |-> <<df.rows[i][1], df.rows[i][ColIndex(df, name)]>>]

(***************************************************************************)
(* The comparisons of one script run.  A comparison is                     *)
(*   [kind, prev_col, cur_col, rows, total, delta]                         *)
(* rows being <<key, previous value, current value, change>>.              *)
(***************************************************************************)
NoComparison(kind) ==
    [kind |-> kind, prev_col |-> "", cur_col |-> "", rows |-> <<>>,
     total |-> 0, delta |-> NoDelta]

\* The table, the metric value and the metric delta for pairs <<key, prev, cur>>
\* faulty variant: the overall change is the mean of the rows' percentages
MutCompareMeanOfRows(kind, prev_col, cur_col, pairs) ==
    LET current_total == SumSeq([i \in 1..Len(pairs) |-> pairs[i][3]])
        pct(i) == IF pairs[i][2] # 0 THEN FormatPct(pairs[i][3], pairs[i][2]).h ELSE 0
    IN  [kind |-> kind, prev_col |-> prev_col, cur_col |-> cur_col,
         rows |-> [i \in 1..Len(pairs) |->
                     <<pairs[i][1], pairs[i][2], pairs[i][3],
                       RowChange(pairs[i][3], pairs[i][2])>>],
         total |-> current_total,
         delta |-> [k |-> "pct",
                    h |-> RoundHalfEven(SumSeq([i \in 1..Len(pairs) |-> pct(i)]),
                                        Len(pairs))]]
Compare(kind, prev_col, cur_col, pairs) ==
    LET current_total == SumSeq([i \in 1..Len(pairs) |-> pairs[i][3]])
        previous_total == SumSeq([i \in 1..Len(pairs) |-> pairs[i][2]])
    IN  [kind |-> kind, prev_col |-> prev_col, cur_col |-> cur_col,
         rows |-> [i \in 1..Len(pairs) |->
                     <<pairs[i][1], pairs[i][2], pairs[i][3],
                       RowChange(pairs[i][3], pairs[i][2])>>],
         total |-> current_total,
         delta |-> OverallChange(current_total, previous_total)]

MonthIndex(m) == CHOOSE i \in 1..Len(month_names) : month_names[i] = m

\* Month-over-Month (app.py lines 185-235)
\* faulty variant: the two month columns change places
MutMoMSwapped(df, selected_month) ==
    LET prev_month == month_names[MonthIndex(selected_month) - 1]
    IN  IF HasCol(df, prev_month) /\ HasCol(df, selected_month)
        THEN Compare("mom", prev_month, selected_month,
                     [i \in 1..Len(df.rows) |->
                        <<df.rows[i][1],
                          df.rows[i][ColIndex(df, selected_month)],
                          df.rows[i][ColIndex(df, prev_month)]>>])
        ELSE NoComparison("unavailable")

MoM(df, selected_month) ==
    LET prev_month == month_names[MonthIndex(selected_month) - 1]
    IN  IF HasCol(df, prev_month) /\ HasCol(df, selected_month)
        THEN Compare("mom", prev_month, selected_month,
                     [i \in 1..Len(df.rows) |->
                        <<df.rows[i][1],
                          df.rows[i][ColIndex(df, prev_month)],
                          df.rows[i][ColIndex(df, selected_month)]>>])
        ELSE NoComparison("unavailable")

\* <<key, left, right>> of the merge as <<key, prev, cur>>: the current year is the
\* left side of both merges
SwapSides(m) == [i \in 1..Len(m) |-> <<m[i][1], m[i][3], m[i][2]>>]

\* Year-over-Month for January (app.py lines 237-299), given get_data's outcome
\* for the previous year
YoM(df, prev) ==
    IF prev.raised THEN NoComparison("error")
    ELSE IF HasCol(df, "Jan") /\ HasCol(prev.df, "Dec")
    THEN Compare("yom", "Dec", "Jan",
                 SwapSides(MergeOuter(KeyedColumn(df, "Jan"), KeyedColumn(prev.df, "Dec"))))
    ELSE NoComparison("unavailable")

\* Year-over-Year (app.py lines 377-451)
YoY(df, prev, selected_month) ==
    IF prev.raised THEN NoComparison("error")
    ELSE IF ~IsEmpty(prev.df)
    THEN LET data_col ==
                 IF /\ selected_month # NoMonth
                    /\ selected_month # AllMonths
                    /\ HasCol(df, selected_month)
                    /\ HasCol(prev.df, selected_month)
                 THEN selected_month ELSE "TOTAL"
         IN  Compare("yoy", data_col, data_col,
                     SwapSides(MergeOuter(KeyedColumn(df, data_col),
                                          KeyedColumn(prev.df, data_col))))
    ELSE NoComparison("unavailable")

(***************************************************************************)
(* Quarter-over-Quarter (app.py lines 306-373).  The result is             *)
(*   [kind, quarters, change_cols, rows, value, delta]                     *)
(* rows being [key, q, chg]: the quarter sums and the change strings.      *)
(***************************************************************************)
\* faulty variant: the labels of the second and third quarter change places
MutQuarterNamesMisplaced ==
    <<"Q1 (Jan-Mar)", "Q3 (Jul-Sep)", "Q2 (Apr-Jun)", "Q4 (Oct-Dec)">>

quarter_names == <<"Q1 (Jan-Mar)", "Q2 (Apr-Jun)", "Q3 (Jul-Sep)", "Q4 (Oct-Dec)">>

\* faulty variant: the last month of every quarter is left out
MutQuarterMonthsTwo(q) == SubSeq(month_names, 3 * q - 2, 3 * q - 1)

quarter_months(q) == SubSeq(month_names, 3 * q - 2, 3 * q)

NoQoQ(kind) ==
    [kind |-> kind, quarters |-> <<>>, change_cols |-> <<>>, rows |-> <<>>,
     value |-> 0, delta |-> NoDelta]

\* df[existing_months].sum(axis=1) for one row
QuarterSum(df, row, q) ==
    LET existing_months == SelectSeq(quarter_months(q), LAMBDA m : HasCol(df, m))
    IN  SumSeq([i \in 1..Len(existing_months) |-> row[ColIndex(df, existing_months[i])]])

QoQ(df) ==
    IF ~(\E m \in Range(month_names) : HasCol(df, m))
    THEN NoQoQ("nomonths")
    ELSE LET calculated_quarters ==
                 SelectSeq(<<1, 2, 3, 4>>,
                           LAMBDA q : \E m \in Range(quarter_months(q)) : HasCol(df, m))
             k == Len(calculated_quarters)
             sums(row) == [j \in 1..k |-> QuarterSum(df, row, calculated_quarters[j])]
             rows == [i \in 1..Len(df.rows) |->
                        LET qs == sums(df.rows[i])
                        IN  [key |-> df.rows[i][1],
                             q |-> qs,
                             chg |-> [j \in 1..(k - 1) |-> RowChange(qs[j + 1], qs[j])]]]
         IN  IF k > 1
             THEN [kind |-> "qoq",
                   quarters |-> [j \in 1..k |-> quarter_names[calculated_quarters[j]]],
                   change_cols |-> [j \in 1..(k - 1) |->
                                      <<quarter_names[calculated_quarters[j + 1]],
                                        quarter_names[calculated_quarters[j]]>>],
                   rows |-> rows,
                   value |-> SumSeq([i \in 1..Len(rows) |-> rows[i].q[k]]),
                   delta |-> rows[1].chg[k - 1]]
             ELSE NoQoQ("insufficient")

(***************************************************************************)
(* One run of the script (app.py lines 146-451) under the selection s.     *)
(***************************************************************************)
BlankPage(status) ==
    [status |-> status, df |-> EmptyDF,
     monthly |-> NoComparison("none"), qoq |-> NoQoQ("none"), yoy |-> NoComparison("none")]

RunScript(s) ==
    \E g \in {get_data(files, data_cache, tables_cache, s.year, s.table_type, s.vehicle_type)} :
        IF g.out.raised
        THEN \* the exception leaves get_data and ends the run
             /\ page' = BlankPage("exception")
             /\ data_cache' = g.dc
             /\ tables_cache' = g.tc
        ELSE IF IsEmpty(g.out.df)
        THEN \* st.error("No data found for the selected options.")
             /\ page' = BlankPage("nodata")
             /\ data_cache' = g.dc
             /\ tables_cache' = g.tc
        ELSE \* get_data(prev_year, ...): called by the January comparison and by YoY
             \E gp \in {get_data(files, g.dc, g.tc, s.year - 1, s.table_type, s.vehicle_type)} :
                /\ page' =
                     [status |-> "shown",
                      df |-> g.out.df,
                      monthly |->
                          IF s.month # NoMonth /\ s.month # AllMonths
                          THEN IF MonthIndex(s.month) > 1
                               THEN MoM(g.out.df, s.month)
                               ELSE YoM(g.out.df, gp.out)
                          ELSE NoComparison("none"),
                      qoq |-> IF s.month = AllMonths THEN QoQ(g.out.df) ELSE NoQoQ("none"),
                      yoy |-> YoY(g.out.df, gp.out, s.month)]
                /\ data_cache' = gp.dc
                /\ tables_cache' = gp.tc

\* The script runs again with the widgets as they are
Rerun ==
    /\ RunScript(sel)
    /\ UNCHANGED <<files, sel, scrape>>

\* "Select Month" changes; the script runs again.  (For the current year the
\* selectbox offers the months up to today's; any month is offered on some day.)
SelectMonth(m) ==
    /\ sel.table_type \in MonthWiseTypes
    /\ m # sel.month
    /\ sel' = [sel EXCEPT !.month = m]
    /\ RunScript(sel')
    /\ UNCHANGED <<files, scrape>>

\* "Select Vehicle Type" changes; the script runs again
SelectVehicleType(v) ==
    /\ sel.table_type \notin MonthWiseTypes
    /\ v # sel.vehicle_type
    /\ sel' = [sel EXCEPT !.vehicle_type = v]
    /\ RunScript(sel')
    /\ UNCHANGED <<files, scrape>>

(***************************************************************************)
(* Scraper run (data_vehicle_class.py lines 11-63).                        *)
(***************************************************************************)
\* f"{vt.lower().replace(' ', '_')}_vehicle_class_{year}.html" under src/
ScraperVehicle(vt) ==
    CASE vt = "TWO WHEELER" -> "two_wheeler"
      [] vt = "THREE WHEELER" -> "three_wheeler"
      [] vt = "FOUR WHEELER" -> "four_wheeler"

VehicleClassFile(vt, year) == <<ScraperVehicle(vt), "vehicle_class", year>>

\* UI steps in the try block: year label, year item, group label, group item,
\* Refresh (four wheelers only), page capture
VahanSteps(vt) == IF vt = "FOUR WHEELER" THEN 6 ELSE 5

\* UI steps in the try block of the two Month Wise scrapers: year label, year
\* item, Y-axis label, Y-axis item, X-axis label, X-axis item, Refresh, page capture
MonthWiseSteps == 8

ManufacturerMonthWiseFile(year) == <<"", "manufacturer_month_wise", year>>

VehicleCategoryMonthWiseFile(year) == <<"", "vehicle_category_month_wise", year>>

NoScrape ==
    [ran |-> FALSE, fn |-> "", path |-> <<>>, fail_at |-> 0, quits |-> 0, saved |-> FALSE]

\* faulty variant: driver.quit() follows the try block without a finally
MutFetchRunNoFinally(nsteps, fail_at) ==
    [steps_done |-> IF fail_at = 0 THEN nsteps ELSE fail_at - 1,
     quits |-> IF fail_at = 0 THEN 1 ELSE 0,
     written |-> fail_at = 0]

\* The body of a fetch function from its try statement on: the steps 1..nsteps
\* run in order, step fail_at raises (0: none does), the finally clause quits the
\* driver either way, and the statements after the try statement (makedirs, open,
\* write) run only when no exception is on its way out.
FetchRun(nsteps, fail_at) ==
    [steps_done |-> IF fail_at = 0 THEN nsteps ELSE fail_at - 1,
     quits |-> 1,
     written |-> fail_at = 0]

\* one call of a fetch function: doc is what the page holds at the page capture
Fetch(fn, nsteps, path, doc, fail_at) ==
    /\ fail_at \in 0..nsteps
    /\ \E r \in {FetchRun(nsteps, fail_at)} :
          /\ scrape' = [ran |-> TRUE, fn |-> fn, path |-> path, fail_at |-> fail_at,
                        quits |-> r.quits, saved |-> r.written]
          /\ files' = IF r.written
                      THEN [files EXCEPT ![path] = [exists |-> TRUE, tables |-> doc]]
                      ELSE files
    /\ UNCHANGED <<tables_cache, data_cache, sel, page>>

fetch_vahan_data(vt, year, doc, fail_at) ==
    Fetch("fetch_vahan_data", VahanSteps(vt), VehicleClassFile(vt, year), doc, fail_at)

fetch_manufacturer_monthwise_data(year, doc, fail_at) ==
    Fetch("fetch_manufacturer_monthwise_data", MonthWiseSteps,
          ManufacturerMonthWiseFile(year), doc, fail_at)

fetch_vehicle_categoty_monthwise_data(year, doc, fail_at) ==
    Fetch("fetch_vehicle_categoty_monthwise_data", MonthWiseSteps,
          VehicleCategoryMonthWiseFile(year), doc, fail_at)

(***************************************************************************)
(* Initial states.                                                         *)
(***************************************************************************)
AbsentFiles == [p \in Paths |-> [exists |-> FALSE, tables |-> <<>>]]

WithFile(fs, path, doc) == [fs EXCEPT ![path] = [exists |-> TRUE, tables |-> doc]]

EmptyTablesCache == [p \in Paths |-> Miss]
EmptyDataCache == [k \in Keys |-> Miss]

\* the process has started and no script run has happened
Fresh ==
    /\ tables_cache = EmptyTablesCache
    /\ data_cache = EmptyDataCache
    /\ page = BlankPage("init")
    /\ scrape = NoScrape

Selection(c, year, month) ==
    [table_type |-> c[1], vehicle_type |-> c[2], year |-> year, month |-> month]

DefaultMonth(c) == IF c[1] \in MonthWiseTypes THEN AllMonths ELSE NoMonth

\* decimal text of a natural number
RECURSIVE Str(_)
DigitChar(d) ==
    CASE d = 0 -> "0" [] d = 1 -> "1" [] d = 2 -> "2" [] d = 3 -> "3" [] d = 4 -> "4"
      [] d = 5 -> "5" [] d = 6 -> "6" [] d = 7 -> "7" [] d = 8 -> "8" [] d = 9 -> "9"
Str(n) == IF n < 10 THEN <<DigitChar(n)>> ELSE Str(n \div 10) \o <<DigitChar(n % 10)>>

\* Shape family: one table of w columns and r rows
ShapeTable(w, r) ==
    [i \in 1..r |->
        [j \in 1..w |->
            IF j = 1 THEN Str(i - 1)
            ELSE IF j = 2 THEN KeyOrder[((i - 1) % Len(KeyOrder)) + 1]
            ELSE IF j % 2 = 1 THEN <<"1", ",", "2", "0", "0">> ELSE Str(j)]]

InitShape ==
    /\ \E c \in Contexts, w \in 1..MaxWidth, r \in 1..MaxRows :
          /\ files = WithFile(AbsentFiles, HtmlPath(2025, c[1], c[2]), <<ShapeTable(w, r)>>)
          /\ sel = Selection(c, 2025, DefaultMonth(c))
    /\ Fresh

NextShape == Rerun

SpecShape == InitShape /\ [][NextShape]_vars

(***************************************************************************)
(* What the claims speak of: the source file of the current selection, its *)
(* table at the documented position, and the column lists of the           *)
(* normalizer's contract.                                                  *)
(***************************************************************************)
SelPath == HtmlPath(sel.year, sel.table_type, sel.vehicle_type)

SelTables == IF files[SelPath].exists THEN files[SelPath].tables ELSE <<>>

\* the documented position: the sixth table of more than five, else the last
DocumentedTable ==
    IF Len(SelTables) > 5 THEN SelTables[6] ELSE SelTables[Len(SelTables)]

\* columns left after the first is dropped
RemainingCols == Len(DocumentedTable[1]) - 1

HasRun == page.status # "init"

IsFixedContext == sel.table_type \in {"Vehicle Class", "Manufacturer"}

ListedKey ==
    CASE sel.table_type = "Vehicle Class" -> "Class"
      [] sel.table_type = "Manufacturer" -> "Manufacturer"
      [] sel.table_type = "Vehicle Category Month Wise" -> "Category"
      [] sel.table_type = "Manufacturer Month Wise" -> "Manufacturer"

ListedMetrics ==
    CASE sel.vehicle_type = "Two Wheeler" -> <<"2WIC", "2WN", "2WT">>
      [] sel.vehicle_type = "Three Wheeler" -> <<"3WN", "3WT">>
      [] sel.vehicle_type = "Four Wheeler" -> <<"4WIC", "LMV", "MMV", "HMV">>
      [] OTHER -> <<>>

\* page.df carries exactly the names listed for the context, on a table of c columns
HasListedNames(c) ==
    /\ Len(page.df.cols) = c
    /\ c >= 2
    /\ page.df.cols[1] = ListedKey
    /\ page.df.cols[c] = "TOTAL"
    /\ IF IsFixedContext
       THEN /\ c - 2 = Len(ListedMetrics)
            /\ \A j \in 1..(c - 2) : page.df.cols[j + 1] = ListedMetrics[j]
       ELSE \A j \in 1..(c - 2) : j <= 12 /\ page.df.cols[j + 1] = month_names[j]

\* page.df is the documented table without its first column, row for row
IsDocumentedTableNormalized ==
    /\ page.status = "shown"
    /\ Len(page.df.rows) = Len(DocumentedTable)
    /\ \A i \in 1..Len(page.df.rows) :
          /\ Len(page.df.rows[i]) = RemainingCols
          /\ page.df.rows[i][1] = DocumentedTable[i][2]
    /\ HasListedNames(RemainingCols)

\* the number of columns matches the number of names of the context
WidthMatches ==
    IF IsFixedContext
    THEN RemainingCols = Len(ListedMetrics) + 2
    ELSE RemainingCols \in 3..14

\* C1 as stated: for every selection context and every non-empty selected raw table,
\* get_data returns as many rows as the raw table has, without its first column,
\* under exactly the column names listed for the context, TOTAL among them.
C1_Original ==
    (HasRun /\ SelTables # <<>>) => IsDocumentedTableNormalized

\* C1 amended: the same, for the raw tables whose column count after the first is
\* dropped equals the number of names listed for the context (for a Month Wise
\* type: 3 to 14 columns).
C1_NormalizedWhenWidthMatches ==
    (HasRun /\ SelTables # <<>> /\ WidthMatches) => IsDocumentedTableNormalized

C1_Witness ==
    /\ page.status = "shown"
    /\ sel.table_type = "Manufacturer" /\ sel.vehicle_type = "Four Wheeler"
    /\ page.df.cols = <<"Manufacturer", "4WIC", "LMV", "MMV", "HMV", "TOTAL">>
    /\ Len(page.df.rows) = 2
    /\ Len(DocumentedTable[1]) = 7

\* C4 as stated: when the column count of the selected table does not match the
\* names of a Vehicle Class or Manufacturer context, get_data returns an empty
\* table as in the no-data case and does not raise.
C4_MismatchGivesEmptyTable ==
    (HasRun /\ SelTables # <<>> /\ IsFixedContext /\ ~WidthMatches)
        => page.status = "nodata"

SelectContexts == {<<"Vehicle Class", "Three Wheeler">>, <<"Manufacturer Month Wise", NoVehicle>>}

\* a table of the width the context names (four columns after the first)
GoodTable(keys) ==
    [i \in 1..Len(keys) |-> <<Str(i - 1), keys[i], Str(i), Str(i + 1), Str(2 * i + 1)>>]

PoolTables ==
    {GoodTable(<<"A">>), GoodTable(<<"B", "C">>), <<<<Str(0), "D">>>>}

RECURSIVE DocsOfLen(_)
DocsOfLen(n) ==
    IF n = 0 THEN {<<>>}
    ELSE {Append(d, t) : d \in DocsOfLen(n - 1), t \in PoolTables}

Docs == UNION {DocsOfLen(n) : n \in 0..MaxTables}

InitSelect ==
    /\ \E c \in SelectContexts :
          /\ sel = Selection(c, 2025, DefaultMonth(c))
          /\ \/ files = AbsentFiles
             \/ \E d \in Docs : files = WithFile(AbsentFiles, HtmlPath(2025, c[1], c[2]), d)
    /\ Fresh

NextSelect == Rerun

SpecSelect == InitSelect /\ [][NextSelect]_vars

\* C2: when the source path does not exist, or exists and yields no table, get_data
\* returns the empty table without raising, and the page shows "no data" and no
\* comparison, the same in both cases.
C2_NoSourceGivesNoData ==
    (HasRun /\ SelTables = <<>>) =>
        /\ page = BlankPage("nodata")
        /\ data_cache[<<sel.year, sel.table_type, sel.vehicle_type>>]
              = [hit |-> TRUE, val |-> EmptyDF]

C2_Witness ==
    /\ HasRun
    /\ files[SelPath].exists
    /\ files[SelPath].tables = <<>>
    /\ page.status = "nodata"
    /\ page.yoy.kind = "none"

\* C3: for a document of n >= 1 tables, get_data normalizes the table at index 5
\* when n > 5 and the last one when n <= 5, and no other: the page holds that
\* table's rows, or no table at all when that table's width does not fit.
C3_DocumentedTableIsNormalized ==
    (HasRun /\ SelTables # <<>>) =>
        IF WidthMatches
        THEN IsDocumentedTableNormalized
        ELSE page.status \in {"nodata", "exception"} /\ page.df = EmptyDF

C3_Witness ==
    /\ Len(SelTables) = 7
    /\ SelTables[6] = GoodTable(<<"B", "C">>)
    /\ SelTables[7] = GoodTable(<<"A">>)
    /\ page.status = "shown"
    /\ Len(page.df.rows) = 2
    /\ page.df.rows[1][1] = "B"

(***************************************************************************)
(* Coercion family: a Month Wise table of one row, Category, Jan, TOTAL,   *)
(* whose Jan cell is any string of up to MaxCellLen characters.            *)
(***************************************************************************)
CellChars == {"0", "1", ",", "-", ".", "x"}

RECURSIVE CellsOfLen(_)
CellsOfLen(n) ==
    IF n = 0 THEN {<<>>}
    ELSE {Append(c, ch) : c \in CellsOfLen(n - 1), ch \in CellChars}

Cells == UNION {CellsOfLen(n) : n \in 0..MaxCellLen}

InitCells ==
    /\ \E jan \in Cells, total \in CellsOfLen(0) \cup CellsOfLen(1) :
          files = WithFile(AbsentFiles, HtmlPath(2025, "Vehicle Category Month Wise", NoVehicle),
                           <<<<(<<Str(0), "A", jan, total>>)>>>>)
    /\ sel = Selection(<<"Vehicle Category Month Wise", NoVehicle>>, 2025, AllMonths)
    /\ Fresh

NextCells == Rerun

SpecCells == InitCells /\ [][NextCells]_vars

\* a cell that is a plain non-negative integer once the separators are removed
IsPlainInteger(cell) == StripCommas(cell) # <<>> /\ IsDigits(StripCommas(cell))

\* C6 as stated: every value outside column 0 of a table get_data returns is a
\* non-negative integer: a cell with thousands separators parses to its integer
\* value, any other cell (blank, text, negative, decimal) becomes exactly 0, and
\* the coercion raises for no string.
C6_CellsAreNonNegativeIntegers ==
    (HasRun /\ SelTables # <<>> /\ WidthMatches) =>
        /\ page.status = "shown"
        /\ \A i \in 1..Len(page.df.rows) : \A j \in 2..Len(page.df.cols) :
              LET cell == DocumentedTable[i][j + 1]
                  v == page.df.rows[i][j]
              IN  /\ v >= 0
                  /\ v = IF IsPlainInteger(cell) THEN DecVal(StripCommas(cell)) ELSE 0

(***************************************************************************)
(* Memo family: the process starts with no source file; scraper runs for   *)
(* 2025 write Vehicle Class files while the script runs.                   *)
(***************************************************************************)
ScrapedVehicles == {"FOUR WHEELER", "THREE WHEELER"}

\* the page of the portal as one table: one row, every count equal to v
ScrapedDoc(vt, v) ==
    <<<<(<<Str(0), "A">> \o [j \in 1..(IF vt = "FOUR WHEELER" THEN 5 ELSE 3) |-> Str(v)])>>>>

InitCache ==
    /\ files = AbsentFiles
    /\ sel = Selection(<<"Vehicle Class", "Four Wheeler">>, 2025, NoMonth)
    /\ Fresh

NextCache ==
    \/ Rerun
    \/ \E v \in Range(vehicle_type_options) : SelectVehicleType(v)
    \/ \E vt \in ScrapedVehicles, v \in 1..MaxVal, fail_at \in 0..6 :
          fetch_vahan_data(vt, 2025, ScrapedDoc(vt, v), fail_at)

SpecCache == InitCache /\ [][NextCache]_vars

\* the page is what normalizing the current content of the selection's file gives
ResultIsCurrent ==
    LET out == Normalize(SelTables, sel.table_type, sel.vehicle_type)
    IN  IF out.raised THEN page.status = "exception"
        ELSE IF IsEmpty(out.df) THEN page.status = "nodata"
        ELSE page.status = "shown" /\ page.df = out.df

\* C7 as stated: after any sequence of scraper runs and get_data calls, every
\* get_data call returns the normalization of the source file's current content;
\* a result memoized before the file was created or re-written is never returned.
\* (A step that changes neither the files nor the scraper outcome is a script run.)
C7_GetDataReturnsCurrentContent ==
    [][(files' = files /\ scrape' = scrape) => ResultIsCurrent']_vars

(***************************************************************************)
(* Comparison family: Manufacturer Month Wise files for 2025 and 2024.     *)
(* A row [key, a, b] holds a in the odd months (Jan, Mar, ...), b in the   *)
(* even ones and their sum in TOTAL.                                       *)
(***************************************************************************)
MonthlyRow(i, n, r) ==
    <<Str(i - 1), r.key>>
        \o [j \in 1..n |-> Str(IF j % 2 = 1 THEN r.a ELSE r.b)]
        \o <<Str(((n + 1) \div 2) * r.a + (n \div 2) * r.b)>>

MonthlyTable(n, rows) == [i \in 1..Len(rows) |-> MonthlyRow(i, n, rows[i])]

Vals == 0..MaxVal

\* the current year: Jan..Feb or Jan..Dec, keys A or A, B (B with one count)
CurMonthCounts == {2, 12}

CurRowSets ==
    {<<[key |-> "A", a |-> a1, b |-> b1]>> : a1 \in Vals, b1 \in Vals}
    \cup {<<[key |-> "A", a |-> a1, b |-> b1], [key |-> "B", a |-> v2, b |-> v2]>> :
            a1 \in Vals, b1 \in Vals, v2 \in Vals}

\* the previous year: twelve months, one count per row; keys that match, that
\* differ, and that repeat
PrevKeyPatterns == {<<"A">>, <<"A", "B">>, <<"B", "C">>, <<"A", "A">>}

PrevRowSets ==
    {<<[key |-> k[1], a |-> v1, b |-> v1]>> : k \in {p \in PrevKeyPatterns : Len(p) = 1},
                                               v1 \in Vals}
    \cup {<<[key |-> k[1], a |-> v1, b |-> v1], [key |-> k[2], a |-> v2, b |-> v2]>> :
            k \in {p \in PrevKeyPatterns : Len(p) = 2}, v1 \in Vals, v2 \in Vals}

CmpContext == <<"Manufacturer Month Wise", NoVehicle>>

CmpMonths == {AllMonths, "Jan", "Feb", "Mar"}

InitCmp ==
    /\ \E n \in CurMonthCounts, cur \in CurRowSets :
          LET fs == WithFile(AbsentFiles, HtmlPath(2025, CmpContext[1], CmpContext[2]),
                             <<MonthlyTable(n, cur)>>)
          IN  \/ files = fs
              \/ \E prev \in PrevRowSets :
                    files = WithFile(fs, HtmlPath(2024, CmpContext[1], CmpContext[2]),
                                     <<MonthlyTable(12, prev)>>)
    /\ sel = Selection(CmpContext, 2025, AllMonths)
    /\ Fresh

NextCmp == \E m \in CmpMonths : SelectMonth(m)

SpecCmp == InitCmp /\ [][NextCmp]_vars

Abs(x) == IF x < 0 THEN 0 - x ELSE x

\* chg is the percentage change from prev to curr written with two decimals:
\* within half a hundredth of (curr - prev) / prev * 100
IsPctOf(chg, curr, prev) ==
    /\ chg.k = "pct"
    /\ 2 * Abs(chg.h * prev - 10000 * (curr - prev)) <= Abs(prev)

\* the zero-denominator rule for one row
RowRule(prev, curr, chg) ==
    IF prev = 0 THEN chg = Sentinel ELSE IsPctOf(chg, curr, prev)

\* the comparison tables of the page with a single change column
PairTables == {page.monthly, page.yoy}

\* C8: in every row of every comparison table (MoM, January YoM, QoQ, YoY) the
\* change is the sentinel when the row's baseline is 0 and otherwise
\* (curr - prev) / prev * 100 with two decimals; every row of a table that is
\* computed gets its change (none fails on a zero baseline).
C8_RowChangeRule ==
    /\ \A t \in PairTables :
          /\ t.kind \in {"mom", "yom", "yoy"} => t.rows # <<>>
          /\ \A i \in 1..Len(t.rows) : RowRule(t.rows[i][2], t.rows[i][3], t.rows[i][4])
    /\ page.qoq.kind = "qoq" => Len(page.qoq.rows) = Len(page.df.rows)
    /\ \A i \in 1..Len(page.qoq.rows) :
          LET r == page.qoq.rows[i]
          IN  /\ Len(r.chg) = Len(r.q) - 1
              /\ \A j \in 1..Len(r.chg) : RowRule(r.q[j], r.q[j + 1], r.chg[j])

C8_Witness ==
    /\ page.monthly.kind = "yom"
    /\ page.yoy.kind = "yoy"
    /\ \E i, j \in 1..Len(page.monthly.rows) :
          /\ page.monthly.rows[i][2] = 0 /\ page.monthly.rows[i][3] = 2
          /\ page.monthly.rows[i][4] = Sentinel
          /\ page.monthly.rows[j][2] = 2 /\ page.monthly.rows[j][3] = 1
          /\ page.monthly.rows[j][4] = [k |-> "pct", h |-> 0 - 5000]
    /\ \E i \in 1..Len(page.yoy.rows) : page.yoy.rows[i][4] = Sentinel

PrevSum(t) == SumSeq([i \in 1..Len(t.rows) |-> t.rows[i][2]])
CurSum(t) == SumSeq([i \in 1..Len(t.rows) |-> t.rows[i][3]])

\* C9 as stated: for the overall change of MoM, January YoM and YoY, whenever the
\* sum of the previous-period column is 0 the emitted change is the sentinel
\* string, never a formatted percentage such as 0.00%.
C9_ZeroBaselineTotalGivesSentinel ==
    \A t \in PairTables :
        (t.kind \in {"mom", "yom", "yoy"} /\ PrevSum(t) = 0) => t.delta = Sentinel

\* C10: for MoM, January YoM and YoY, whenever the previous-period column sum is not
\* 0, the overall change is (sum of current - sum of previous) / sum of previous
\* * 100 over all rows of the comparison table and the reported total is the sum
\* of the current column.
C10_OverallChangeFromSums ==
    \A t \in PairTables :
        (t.kind \in {"mom", "yom", "yoy"} /\ PrevSum(t) # 0) =>
            /\ t.total = CurSum(t)
            /\ IsPctOf(t.delta, CurSum(t), PrevSum(t))

\* rows +100.00% and 0.00%, whose mean is 50.00%; the sums give 33.33%
C10_Witness ==
    /\ page.monthly.kind = "mom"
    /\ Len(page.monthly.rows) = 2
    /\ page.monthly.rows[1][4] = [k |-> "pct", h |-> 10000]
    /\ page.monthly.rows[2][4] = [k |-> "pct", h |-> 0]
    /\ page.monthly.total = 4
    /\ page.monthly.delta = [k |-> "pct", h |-> 3333]

\* column sum of the j-th included quarter over all categories
QuarterTotal(j) == SumSeq([i \in 1..Len(page.qoq.rows) |-> page.qoq.rows[i].q[j]])

\* C11 as stated: with at least two included quarters, the scalar "Latest QoQ
\* Growth" is the percentage change between the column sums of the last included
\* quarter and of the one before it over all categories, not the change of a
\* single row.
C11_LatestQoQFromColumnSums ==
    page.qoq.kind = "qoq" =>
        LET k == Len(page.qoq.quarters)
        IN  /\ page.qoq.value = QuarterTotal(k)
            /\ RowRule(QuarterTotal(k - 1), QuarterTotal(k), page.qoq.delta)

\* the previous year's table as get_data returned it to the comparison blocks
PrevTable == data_cache[<<sel.year - 1, sel.table_type, sel.vehicle_type>>].val

KeysOf(df) == {df.rows[i][1] : i \in 1..Len(df.rows)}

\* the comparison tables built by an outer join of two years
JoinTables ==
    {t \in PairTables : t.kind \in {"yom", "yoy"}}

\* C12 as stated: in the joins of the YoY and January comparisons, tables with a
\* repeated category included, every category of either side is in exactly one
\* row of the result, and a category missing on one side has that side's value 0.
C12_JoinHasOneRowPerCategory ==
    \A t \in JoinTables :
        /\ \A k \in KeysOf(page.df) \cup KeysOf(PrevTable) :
               Cardinality({i \in 1..Len(t.rows) : t.rows[i][1] = k}) = 1
        /\ \A i \in 1..Len(t.rows) :
               /\ t.rows[i][1] \in KeysOf(page.df) \cup KeysOf(PrevTable)
               /\ t.rows[i][1] \notin KeysOf(page.df) => t.rows[i][3] = 0
               /\ t.rows[i][1] \notin KeysOf(PrevTable) => t.rows[i][2] = 0

\* the same statement restricted to tables without a repeated category
C12_HoldsForUniqueCategories ==
    (/\ JoinTables # {}
     /\ Cardinality(KeysOf(page.df)) = Len(page.df.rows)
     /\ Cardinality(KeysOf(PrevTable)) = Len(PrevTable.rows))
    => C12_JoinHasOneRowPerCategory

(***************************************************************************)
(* Tables of every month count: the current year holds Jan..n for n in     *)
(* 1..12, the previous year is absent, stops at Feb, runs to Dec, or has   *)
(* one column more than Jan..Dec and TOTAL can name.                       *)
(***************************************************************************)
PeriodCurMonthCounts == 1..Len(month_names)

PeriodCurRowSets ==
    {<<[key |-> "A", a |-> a1, b |-> b1]>> : a1 \in Vals, b1 \in Vals}
    \cup {<<[key |-> "A", a |-> a1, b |-> b1], [key |-> "B", a |-> 1, b |-> 0]>> :
            a1 \in Vals, b1 \in Vals}

PeriodPrevMonthCounts == {2, Len(month_names), Len(month_names) + 1}

PeriodPrevRowSets == {<<[key |-> k, a |-> 1, b |-> 1]>> : k \in {"A", "B"}}

PeriodMonths == {AllMonths} \cup Range(month_names)

InitPeriods ==
    /\ \E n \in PeriodCurMonthCounts, cur \in PeriodCurRowSets :
          LET fs == WithFile(AbsentFiles, HtmlPath(2025, CmpContext[1], CmpContext[2]),
                             <<MonthlyTable(n, cur)>>)
          IN  \/ files = fs
              \/ \E pn \in PeriodPrevMonthCounts, prev \in PeriodPrevRowSets :
                    files = WithFile(fs, HtmlPath(2024, CmpContext[1], CmpContext[2]),
                                     <<MonthlyTable(pn, prev)>>)
    /\ sel = Selection(CmpContext, 2025, AllMonths)
    /\ Fresh

NextPeriods == \E m \in PeriodMonths : SelectMonth(m)

SpecPeriods == InitPeriods /\ [][NextPeriods]_vars

MonthSelected == page.status = "shown" /\ sel.month \in Range(month_names)

\* the calendar month before m (m not Jan)
Preceding(m) ==
    month_names[(CHOOSE i \in 1..Len(month_names) : month_names[i] = m) - 1]

\* get_data raised for the previous year: nothing was memoized for it
PrevRaised == ~data_cache[<<sel.year - 1, sel.table_type, sel.vehicle_type>>].hit

Cell(df, i, name) == df.rows[i][ColIndex(df, name)]

\* the comparison table t pairs column cur_col of df with column prev_col of the
\* same table, row by row
PairsSameTable(t, df, prev_col, cur_col) ==
    /\ t.prev_col = prev_col
    /\ t.cur_col = cur_col
    /\ Len(t.rows) = Len(df.rows)
    /\ \A i \in 1..Len(df.rows) :
           /\ t.rows[i][1] = df.rows[i][1]
           /\ t.rows[i][2] = Cell(df, i, prev_col)
           /\ t.rows[i][3] = Cell(df, i, cur_col)

\* v is the value of column name in a row of df with category k, or 0 when df has
\* no such row
ValueOfCategory(df, name, k, v) ==
    \/ \E i \in 1..Len(df.rows) : df.rows[i][1] = k /\ Cell(df, i, name) = v
    \/ k \notin KeysOf(df) /\ v = 0

\* the comparison table t pairs column cur_col of df with column prev_col of the
\* previous year's table, category by category
PairsTwoTables(t, df, prev, prev_col, cur_col) ==
    /\ t.prev_col = prev_col
    /\ t.cur_col = cur_col
    /\ \A k \in KeysOf(df) \cup KeysOf(prev) : \E i \in 1..Len(t.rows) : t.rows[i][1] = k
    /\ \A i \in 1..Len(t.rows) :
           /\ t.rows[i][1] \in KeysOf(df) \cup KeysOf(prev)
           /\ ValueOfCategory(prev, prev_col, t.rows[i][1], t.rows[i][2])
           /\ ValueOfCategory(df, cur_col, t.rows[i][1], t.rows[i][3])

\* the month comparison of a month other than January
MoMAsDocumented ==
    (MonthSelected /\ sel.month # "Jan") =>
        IF HasCol(page.df, Preceding(sel.month)) /\ HasCol(page.df, sel.month)
        THEN /\ page.monthly.kind = "mom"
             /\ PairsSameTable(page.monthly, page.df, Preceding(sel.month), sel.month)
        ELSE page.monthly = NoComparison("unavailable")

C14_YoYOfSelectedMonthOnly ==
    /\ (page.status = "shown" /\ sel.month = AllMonths /\ page.yoy.kind = "yoy")
           => PairsTwoTables(page.yoy, page.df, PrevTable, "TOTAL", "TOTAL")
    /\ MonthSelected =>
           IF /\ ~PrevRaised
              /\ HasCol(page.df, sel.month)
              /\ HasCol(PrevTable, sel.month)
           THEN /\ page.yoy.kind = "yoy"
                /\ PairsTwoTables(page.yoy, page.df, PrevTable, sel.month, sel.month)
           ELSE /\ page.yoy.kind # "yoy"
                /\ page.yoy.rows = <<>>
                /\ page.yoy.delta = NoDelta

\* the part of C14 that the code keeps: the month's column when both tables have it
C14_MonthColumnWhenInBoth ==
    (MonthSelected /\ ~PrevRaised /\ HasCol(page.df, sel.month)
        /\ HasCol(PrevTable, sel.month))
    => /\ page.yoy.kind = "yoy"
       /\ PairsTwoTables(page.yoy, page.df, PrevTable, sel.month, sel.month)

AllSelected == page.status = "shown" /\ sel.month = AllMonths

\* the quarters with at least one of their three months among the columns
IncludedQuarters ==
    {q \in 1..4 : \E i \in (3 * q - 2)..(3 * q) : HasCol(page.df, month_names[i])}

\* the j-th included quarter in calendar order
NthIncluded(j) ==
    CHOOSE q \in IncludedQuarters : Cardinality({p \in IncludedQuarters : p < q}) = j - 1

\* the sum over the months of quarter q that are columns, in row i
PresentMonthsSum(i, q) ==
    SumSeq([x \in 1..3 |->
              IF HasCol(page.df, month_names[3 * q - 3 + x])
              THEN Cell(page.df, i, month_names[3 * q - 3 + x]) ELSE 0])

\* C15: for a Month Wise table under 'All', a quarter is in the QoQ output
\* exactly when one of its three months is a column, its value in each row is
\* the sum of its months that are present, k >= 2 included quarters give exactly
\* k-1 change columns, each of an included quarter against the included quarter
\* just before it, and k < 2 gives no change column and 'insufficient data'.
C15_QuartersFromPresentMonths ==
    AllSelected =>
        LET k == Cardinality(IncludedQuarters)
            t == page.qoq
        IN  IF k >= 2
            THEN /\ t.kind = "qoq"
                 /\ Len(t.quarters) = k
                 /\ \A j \in 1..k : t.quarters[j] = quarter_names[NthIncluded(j)]
                 /\ Len(t.change_cols) = k - 1
                 /\ \A j \in 1..(k - 1) :
                        t.change_cols[j] = <<quarter_names[NthIncluded(j + 1)],
                                             quarter_names[NthIncluded(j)]>>
                 /\ Len(t.rows) = Len(page.df.rows)
                 /\ \A i \in 1..Len(t.rows) :
                        /\ t.rows[i].key = page.df.rows[i][1]
                        /\ Len(t.rows[i].q) = k
                        /\ \A j \in 1..k :
                               t.rows[i].q[j] = PresentMonthsSum(i, NthIncluded(j))
                        /\ Len(t.rows[i].chg) = k - 1
                        /\ \A j \in 1..(k - 1) :
                               RowRule(t.rows[i].q[j], t.rows[i].q[j + 1], t.rows[i].chg[j])
            ELSE /\ t.kind \in {"insufficient", "nomonths"}
                 /\ t.change_cols = <<>>
                 /\ t.rows = <<>>
                 /\ t.delta = NoDelta

\* the table stops at May: Q2 is included with two of its months, and counts
C15_Witness ==
    /\ AllSelected
    /\ HasCol(page.df, "May")
    /\ ~HasCol(page.df, "Jun")
    /\ page.qoq.kind = "qoq"
    /\ Len(page.qoq.change_cols) = 1
    /\ \E i \in 1..Len(page.qoq.rows) :
           page.qoq.rows[i].q[2] > 0 /\ page.qoq.rows[i].q[1] > page.qoq.rows[i].q[2]

\* the name of a change column (app.py line 335), c being <<curr_quarter, prev_quarter>>
ChangeColumnName(c) == c[1] \o " vs " \o c[2] \o " QoQ%"

\* the month columns stop in the second quarter
CoversQ1AndQ2Only ==
    /\ AllSelected
    /\ HasCol(page.df, "Apr")
    /\ ~HasCol(page.df, "Jul")

\* C16 as stated: for a table covering only Q1 and Q2 the QoQ output has exactly
\* one change column, named "Q2 vs Q1 QoQ%", and no Q3 or Q4 column.
C16_Original ==
    CoversQ1AndQ2Only =>
        /\ page.qoq.kind = "qoq"
        /\ Len(page.qoq.change_cols) = 1
        /\ ChangeColumnName(page.qoq.change_cols[1]) = "Q2 vs Q1 QoQ%"
        /\ Len(page.qoq.quarters) = 2

\* C16 amended: for a table covering only Q1 and Q2 the QoQ output has the
\* quarter columns "Q1 (Jan-Mar)" and "Q2 (Apr-Jun)" and no other, and exactly
\* one change column, named "Q2 (Apr-Jun) vs Q1 (Jan-Mar) QoQ%".
C16_OneChangeColumnForTwoQuarters ==
    CoversQ1AndQ2Only =>
        /\ page.qoq.kind = "qoq"
        /\ page.qoq.quarters = <<"Q1 (Jan-Mar)", "Q2 (Apr-Jun)">>
        /\ Len(page.qoq.change_cols) = 1
        /\ ChangeColumnName(page.qoq.change_cols[1]) = "Q2 (Apr-Jun) vs Q1 (Jan-Mar) QoQ%"
        /\ \A i \in 1..Len(page.qoq.rows) :
               Len(page.qoq.rows[i].q) = 2 /\ Len(page.qoq.rows[i].chg) = 1

\* the table runs from Jan to Jun and the one change column is there
C16_Witness ==
    /\ CoversQ1AndQ2Only
    /\ HasCol(page.df, "Jun")
    /\ Len(page.qoq.change_cols) = 1
    /\ Len(page.qoq.rows) = 2

(***************************************************************************)
(* Scraper runs: the three fetch functions are called in any order, each   *)
(* run failing at any one of its UI steps or at none; a later run meets    *)
(* the files the earlier ones saved.                                       *)
(***************************************************************************)
MonthWiseDoc(v) == <<MonthlyTable(2, <<[key |-> "A", a |-> v, b |-> v]>>)>>

InitScrape ==
    /\ files = AbsentFiles
    /\ sel = Selection(CmpContext, 2025, AllMonths)
    /\ Fresh

NextScrape ==
    \/ \E vt \in ScrapedVehicles : \E v \in 1..MaxVal, fail_at \in 0..VahanSteps(vt) :
          fetch_vahan_data(vt, 2025, ScrapedDoc(vt, v), fail_at)
    \/ \E v \in 1..MaxVal, fail_at \in 0..MonthWiseSteps :
          fetch_manufacturer_monthwise_data(2025, MonthWiseDoc(v), fail_at)
    \/ \E v \in 1..MaxVal, fail_at \in 0..MonthWiseSteps :
          fetch_vehicle_categoty_monthwise_data(2025, MonthWiseDoc(v), fail_at)

SpecScrape == InitScrape /\ [][NextScrape]_vars

\* C17: in each fetch function, at whichever UI step a run fails, the driver is
\* quit exactly once, the output file is created or overwritten only when every
\* UI step succeeded, and a failing run leaves the files, a previously saved one
\* included, as they were.
C17_QuitOnceAndSaveOnlyOnSuccess ==
    [][/\ scrape'.ran
       /\ scrape'.quits = 1
       /\ scrape'.fail_at # 0 => files' = files
       /\ files' # files => scrape'.fail_at = 0
       /\ scrape'.fail_at = 0 =>
              /\ files'[scrape'.path].exists
              /\ \A p \in Paths \ {scrape'.path} : files'[p] = files[p]]_vars

\* the Refresh click of the manufacturer scraper failed with a file already saved
C17_Witness ==
    /\ scrape.ran
    /\ scrape.fn = "fetch_manufacturer_monthwise_data"
    /\ scrape.fail_at = 7
    /\ scrape.quits = 1
    /\ ~scrape.saved
    /\ files[scrape.path].exists

====
